---- MODULE Spec2Model ----
(***************************************************************************)
(* A model of fetch_md_images.py: the download retry loop, the three       *)
(* rewriters (inline, reference definition, HTML img) that share one       *)
(* per-document cache, process_md_file, and the loop of main over the      *)
(* documents found.                                                        *)
(*                                                                         *)
(* A document is a sequence of spans.  A span is either plain text or one  *)
(* match of one of the three patterns, kept as the groups the pattern      *)
(* captures plus the whitespace the pattern consumes between them, so that *)
(* the matched text (m.group(0)) and the text the code re-emits can be     *)
(* compared character for character.                                       *)
(***************************************************************************)
EXTENDS Integers, Sequences, FiniteSets, TLC

(***************************************************************************)
(* Bounds of the model.                                                    *)
(***************************************************************************)
MaxRetries == 2     \* largest retry count passed to download / to --retries
MaxItems == 2       \* spans per document
MaxDocs == 2        \* documents found by find_md

(***************************************************************************)
(* Program constants.                                                      *)
(***************************************************************************)
DefaultRetries == 2     \* download(max_retries=2), --retries default
DefaultTimeout == 20    \* download(timeout=20), --timeout default
OutDir == "images"      \* --out-dir default

\* The values --timeout is given in the runs examined.
Timeouts == {DefaultTimeout, 5}

RetryableStatus == {429, 500, 502, 503, 504}
Statuses == {200, 404} \cup RetryableStatus

(***************************************************************************)
(* URLs, as urlparse splits them: scheme, host, and the last path segment  *)
(* as os.path.splitext splits it.                                          *)
(***************************************************************************)
uA == [scheme |-> "https", host |-> "h", stem |-> "a", ext |-> ".png"]
uB == [scheme |-> "http", host |-> "h", stem |-> "", ext |-> ""]
uL == [scheme |-> "", host |-> "", stem |-> "local", ext |-> ".png"]
uD == [scheme |-> "data", host |-> "", stem |-> "x", ext |-> ""]
URLs == {uA, uB, uL, uD}

\* The text of a URL as it stands in the document.
UrlText(u) ==
    IF u.scheme \in {"http", "https"}
    THEN u.scheme \o "://" \o u.host \o "/" \o u.stem \o u.ext
    ELSE IF u.scheme = "" THEN u.host \o u.stem \o u.ext
    ELSE u.scheme \o ":" \o u.stem \o u.ext

\* any URL with a scheme taken for a remote one
is_http_url_any(url) == url.scheme # ""

is_http_url(url) == url.scheme \in {"http", "https"}

RemoteURLs == {u \in URLs : is_http_url(u)}

\* Content-Type headers a response may carry.
CTypes == {"", "image/png", "image/png; charset=binary", "x-unknown/none"}

\* content_type.split(";")[0].strip()
PrimaryToken(ctype) ==
    IF ctype = "image/png; charset=binary" THEN "image/png" ELSE ctype

\* mimetypes.guess_extension; "" stands for None.
guess_extension(mime) == IF mime = "image/png" THEN ".png" ELSE ""

\* hashlib.sha1(url).hexdigest()[:10], one digest per URL text.
Fingerprint(url) == "#" \o UrlText(url)

safe_filename_from_url(url, content_type) ==
    LET root == IF url.stem = "" /\ url.ext = "" THEN "image" ELSE url.stem
        ext1 == IF url.ext = "" /\ content_type # ""
                THEN guess_extension(PrimaryToken(content_type))
                ELSE url.ext
        ext == IF ext1 = "" THEN ".bin" ELSE ext1
    IN  [root |-> root, h |-> Fingerprint(url), ext |-> ext]

FileNames == {safe_filename_from_url(u, c) : u \in RemoteURLs, c \in CTypes}

\* os.path.relpath(out_dir / fname, start=md_base_dir), parsed the way
\* urlparse and os.path.splitext parse it when the text is read again.
relpath(f) ==
    [scheme |-> "", host |-> OutDir \o "/", stem |-> f.root \o "_" \o f.h,
     ext |-> f.ext]

(***************************************************************************)
(* State.                                                                  *)
(***************************************************************************)
VARIABLES
    pc,        \* position of the single thread of control
    args,      \* parsed command line: retries, timeout, overwrite
    files,     \* find_md(target): the documents, as path numbers
    fi,        \* index in files of the document being processed
    out,       \* lines written to stdout and stderr, in order
    status,    \* exit status: -1 while running
    mdfile,    \* the file at md_path: [known, text]
    written,   \* what process_md_file wrote: [to, text]
    text,      \* the document text being rewritten
    pass,      \* 1 process_inline, 2 process_ref, 3 process_html
    idx,       \* position of the last span the current pass handled
    cache,     \* url -> local relative path
    dl,        \* the frame of the running download call
    disk,      \* files under out_dir: name -> content
    calls,     \* download calls per url in this process_md_file call
    failed,    \* urls whose download returned None in this call
    prev       \* result of the previous process_md_file call on md_path

vars == <<pc, args, files, fi, out, status, mdfile, written, text, pass, idx,
          cache, dl, disk, calls, failed, prev>>

driver == <<args, files, fi, out, status>>
doc == <<mdfile, written, text, pass, idx, cache, calls, failed, prev>>

NoName == [root |-> "", h |-> "", ext |-> ""]
NoDl == [url |-> uL, max_retries |-> 0, timeout |-> 0, attempt |-> 0,
         trace |-> FALSE, tried |-> <<>>, ret |-> "idle", path |-> NoName,
         disk0 |-> <<>>]

\* The document main is at, 0 outside the loop.
CurrentFile == IF fi \in 1..Len(files) THEN files[fi] ELSE 0

\* File contents: never created, created and empty, a prefix of the body,
\* the whole body, or non-empty content from before the run.
NonEmpty == {"partial", "full", "old"}

(***************************************************************************)
(* download                                                                *)
(***************************************************************************)
\* The frame of a call.  attempt is the loop variable; tried is the history
\* of the call's attempts (the status of each response, 0 for none), kept
\* when trace is set; path is the name returned; disk0 is the directory as
\* it was when the call began.
NewDl(url, max_retries, timeout, trace) ==
    [url |-> url, max_retries |-> max_retries, timeout |-> timeout,
     attempt |-> 0, trace |-> trace, tried |-> <<>>, ret |-> "pending",
     path |-> NoName, disk0 |-> disk]

Tried(d, st, how) ==
    IF d.trace THEN Append(d.tried, [status |-> st, how |-> how]) ELSE d.tried

\* range(max_retries + 1) has another value
attempts_left_short(d) == d.attempt < d.max_retries

attempts_left(d) == d.attempt < d.max_retries + 1

\* out_dir.mkdir(parents=True, exist_ok=True): outside the try, so an
\* OSError leaves download and every caller up to main's handler.
download_mkdir ==
    /\ pc = "mkdir"
    /\ \/ /\ pc' = IF attempts_left(dl) THEN "attempt" ELSE "dl_ret"
          /\ dl' = IF attempts_left(dl) THEN dl ELSE [dl EXCEPT !.ret = "none"]
       \/ /\ pc' = "raised"
          /\ dl' = [dl EXCEPT !.ret = "raised"]
    /\ UNCHANGED <<driver, doc, disk>>

\* The except clause: one attempt used; the warning after the last one.
AttemptFailed(st, how) ==
    LET d == [dl EXCEPT !.attempt = @ + 1, !.tried = Tried(dl, st, how)]
    IN  /\ dl' = IF attempts_left(d) THEN d ELSE [d EXCEPT !.ret = "none"]
        /\ pc' = IF attempts_left(d) THEN "attempt" ELSE "dl_ret"
        /\ out' = IF attempts_left(d) THEN out
                  ELSE Append(out, [kind |-> "WARN", file |-> CurrentFile,
                                    url |-> UrlText(dl.url)])

AttemptReturned(st, name) ==
    /\ dl' = [dl EXCEPT !.attempt = @ + 1, !.tried = Tried(dl, st, "ok"),
                        !.ret = "path", !.path = name]
    /\ pc' = "dl_ret"
    /\ out' = out

\* out_path.exists() and out_path.stat().st_size > 0
already_fetched(content) == content \in NonEmpty

\* One pass of the for loop: session.get, the status checks, the file name,
\* the short cut for a file already there, and the streaming of the body.
download_attempt ==
    /\ pc = "attempt"
    /\ \/ \* session.get raises (connection error, timeout)
          /\ AttemptFailed(0, "network")
          /\ disk' = disk
       \/ \E st \in Statuses :
            \/ /\ st \in RetryableStatus
               /\ AttemptFailed(st, "retryable")
               /\ disk' = disk
            \/ /\ st \notin RetryableStatus /\ st >= 400
               /\ AttemptFailed(st, "status")
               /\ disk' = disk
            \/ /\ st < 400
               /\ \E ctype \in CTypes :
                    LET fname == safe_filename_from_url(dl.url, ctype) IN
                    IF already_fetched(disk[fname])
                    THEN /\ AttemptReturned(st, fname)
                         /\ disk' = disk
                    ELSE \/ \* the body is written to the end
                            /\ disk' = [disk EXCEPT ![fname] = "full"]
                            /\ AttemptReturned(st, fname)
                         \/ \* iter_content or write raises
                            \E got \in {"empty", "partial"} :
                              /\ disk' = [disk EXCEPT ![fname] = got]
                              /\ AttemptFailed(st, "stream")
    /\ UNCHANGED <<args, files, fi, status, doc>>

(***************************************************************************)
(* Spans of a document.  name is the alt text, the id, or the attributes   *)
(* before src; lead is the \s* after "]:"; sep is the \s+ before the       *)
(* title; trail is the \s* before the end of the line, or the attributes   *)
(* after src; q is the quote character of src.                             *)
(***************************************************************************)
Span(kind, name, lead, url, sep, hasTitle, title, trail, q) ==
    [kind |-> kind, name |-> name, lead |-> lead, url |-> url, sep |-> sep,
     hasTitle |-> hasTitle, title |-> title, trail |-> trail, q |-> q]

Spans ==
    { Span("inline", "alt", "", uA, " ", TRUE, "", "", ""),
      Span("inline", "", "", uB, "  ", TRUE, "t", "", ""),
      Span("inline", "alt", "", uL, "  ", TRUE, "t", "", ""),
      Span("refdef", "logo", " ", uA, " ", TRUE, "Logo", "", ""),
      Span("refdef", "id", "  ", uD, "", FALSE, "", " ", ""),
      Span("html", " ", "", uA, "", FALSE, "", " alt=\"x\"", "'"),
      Span("html", " ", "", uL, "", FALSE, "", "", "\""),
      Span("text", "![Logo][logo]", "", uL, "", FALSE, "", "", "") }

RECURSIVE SeqsUpTo(_, _)
SeqsUpTo(S, n) ==
    IF n = 0 THEN {<<>>}
    ELSE LET shorter == SeqsUpTo(S, n - 1)
         IN  shorter \cup {Append(s, x) : s \in {t \in shorter : Len(t) = n - 1},
                                          x \in S}

Docs == SeqsUpTo(Spans, MaxItems) \ {<<>>}

\* The documents a run of main is given: one or two spans, with a remote
\* URL in two syntaxes and a local one.
DriverSpans ==
    { Span("inline", "alt", "", uA, " ", TRUE, "t", "", ""),
      Span("html", " ", "", uA, "", FALSE, "", " alt=\"x\"", "'"),
      Span("inline", "alt", "", uL, "  ", TRUE, "t", "", "") }

DriverDocs == {<<a>> : a \in DriverSpans} \cup DriverSpans \X DriverSpans

TitleText(m) ==
    IF m.hasTitle THEN m.sep \o "\"" \o m.title \o "\"" ELSE ""

\* The text of a span: m.group(0) for a match.
Render(m) ==
    CASE m.kind = "inline" ->
           "![" \o m.name \o "](" \o UrlText(m.url) \o TitleText(m) \o ")"
      [] m.kind = "refdef" ->
           "[" \o m.name \o "]:" \o m.lead \o UrlText(m.url) \o TitleText(m)
               \o m.trail
      [] m.kind = "html" ->
           "<img" \o m.name \o "src=" \o m.q \o UrlText(m.url) \o m.q
               \o m.trail \o ">"
      [] OTHER -> m.name

\* The pattern each pass substitutes.
PassKind(p) ==
    CASE p = 1 -> "inline" [] p = 2 -> "refdef" [] OTHER -> "html"

\* the match re-emitted with the URL it had
inline_repl_keep(m, local_rel) == m

\* f'![{alt}]({local_rel} "{title}")' if title else f'![{alt}]({local_rel})'
inline_repl(m, local_rel) ==
    IF m.hasTitle /\ m.title # ""
    THEN [m EXCEPT !.url = local_rel, !.sep = " "]
    ELSE [m EXCEPT !.url = local_rel, !.sep = "", !.hasTitle = FALSE,
                   !.title = ""]

\* f'[{ref_id}]: {local_rel} "{title}"' if title else f'[{ref_id}]: {local_rel}'
ref_repl_def(m, local_rel) ==
    IF m.hasTitle /\ m.title # ""
    THEN [m EXCEPT !.url = local_rel, !.lead = " ", !.sep = " ", !.trail = ""]
    ELSE [m EXCEPT !.url = local_rel, !.lead = " ", !.sep = "", !.trail = "",
                   !.hasTitle = FALSE, !.title = ""]

\* re.sub(r'\bsrc=(["\']).*?\1', f'src={q}{local_rel}{q}', tag, count=1), for
\* a tag whose first src attribute is the one HTML_IMG captured.
html_repl(m, local_rel) == [m EXCEPT !.url = local_rel]

Rewritten(m, local_rel) ==
    CASE m.kind = "inline" -> inline_repl(m, local_rel)
      [] m.kind = "refdef" -> ref_repl_def(m, local_rel)
      [] OTHER -> html_repl(m, local_rel)

(***************************************************************************)
(* The rewriters: pattern.sub(_repl, text), one match per step.            *)
(***************************************************************************)
\* The matches of the current pass that sub has not reached yet.
Pending == {j \in (idx + 1)..Len(text) : text[j].kind = PassKind(pass)}

HasMatch == Pending # {}

NextMatch == CHOOSE j \in Pending : \A k \in Pending : j <= k

Count(f, u) == IF u \in DOMAIN f THEN f[u] ELSE 0

\* if not is_http_url(url): return m.group(0)
repl_not_remote ==
    /\ pc = "rewrite" /\ HasMatch
    /\ ~is_http_url(text[NextMatch].url)
    /\ idx' = NextMatch
    /\ UNCHANGED <<pc, driver, mdfile, written, text, pass, cache, dl, disk,
                   calls, failed, prev>>

cache_hit(url) == url \in DOMAIN cache

\* if url in cache: local_rel = cache[url], and the match is re-emitted
repl_cached ==
    /\ pc = "rewrite" /\ HasMatch
    /\ is_http_url(text[NextMatch].url)
    /\ cache_hit(text[NextMatch].url)
    /\ idx' = NextMatch
    /\ text' = [text EXCEPT ![NextMatch] =
                   Rewritten(@, cache[text[NextMatch].url])]
    /\ UNCHANGED <<pc, driver, mdfile, written, pass, cache, dl, disk, calls,
                   failed, prev>>

\* else: saved = download(url, out_dir, session), with the default
\* max_retries and timeout
repl_download ==
    /\ pc = "rewrite" /\ HasMatch
    /\ is_http_url(text[NextMatch].url)
    /\ ~cache_hit(text[NextMatch].url)
    /\ idx' = NextMatch
    /\ dl' = NewDl(text[NextMatch].url, DefaultRetries, DefaultTimeout, FALSE)
    /\ calls' = (text[NextMatch].url :> Count(calls, text[NextMatch].url) + 1)
                   @@ calls
    /\ pc' = "mkdir"
    /\ UNCHANGED <<driver, mdfile, written, text, pass, cache, disk, failed,
                   prev>>

\* After download returns: if not saved: return m.group(0); else relpath,
\* cache[url] = local_rel, and the match is re-emitted.
repl_resume ==
    /\ pc = "dl_ret"
    /\ pc' = "rewrite"
    /\ IF dl.ret = "none"
       THEN /\ failed' = failed \cup {dl.url}
            /\ UNCHANGED <<text, cache>>
       ELSE /\ cache' = (dl.url :> relpath(dl.path)) @@ cache
            /\ text' = [text EXCEPT ![idx] = Rewritten(@, relpath(dl.path))]
            /\ failed' = failed
    /\ dl' = NoDl
    /\ UNCHANGED <<driver, mdfile, written, pass, idx, disk, calls, prev>>

\* sub has no further match: the next rewriter starts on the result.
pass_end ==
    /\ pc = "rewrite" /\ ~HasMatch
    /\ \/ /\ pass < 3
          /\ pass' = pass + 1 /\ idx' = 0 /\ pc' = pc
       \/ /\ pass = 3
          /\ pc' = "write" /\ UNCHANGED <<pass, idx>>
    /\ UNCHANGED <<driver, mdfile, written, text, cache, dl, disk, calls,
                   failed, prev>>

(***************************************************************************)
(* process_md_file                                                         *)
(***************************************************************************)
\* md_path.read_text, then the empty cache; read_text may raise.  A file not
\* read before holds any document of D; one read or written before holds
\* what was last read or written.
process_read(D) ==
    /\ pc = "read"
    /\ \/ /\ \E d \in (IF mdfile.known THEN {mdfile.text} ELSE D) :
               /\ mdfile' = [known |-> TRUE, text |-> d]
               /\ text' = d
          /\ cache' = <<>>
          /\ pass' = 1 /\ idx' = 0
          /\ pc' = "rewrite"
       \/ /\ pc' = "raised"
          /\ UNCHANGED <<mdfile, text, cache, pass, idx>>
    /\ UNCHANGED <<driver, written, dl, disk, calls, failed, prev>>

\* out_path.write_text(text3); write_text may raise.
process_write ==
    /\ pc = "write"
    /\ \/ /\ written' = [to |-> IF args.overwrite THEN "md" ELSE "converted",
                         text |-> text]
          /\ mdfile' = IF args.overwrite THEN [mdfile EXCEPT !.text = text]
                       ELSE mdfile
          /\ pc' = "returned"
       \/ /\ pc' = "raised"
          /\ UNCHANGED <<written, mdfile>>
    /\ UNCHANGED <<driver, text, pass, idx, cache, dl, disk, calls, failed,
                   prev>>

(***************************************************************************)
(* main                                                                    *)
(***************************************************************************)
Line(kind) == [kind |-> kind, file |-> CurrentFile, url |-> ""]

\* files = find_md(target); if not files: sys.exit(1)
main_find ==
    /\ pc = "main"
    /\ IF files = <<>>
       THEN /\ out' = Append(out, Line("INFO"))
            /\ status' = 1
            /\ pc' = "exit"
       ELSE /\ pc' = "loop"
            /\ UNCHANGED <<out, status>>
    /\ UNCHANGED <<args, files, fi, doc, dl, disk>>

\* for md in files: the next document, or the end of main
main_next ==
    /\ pc = "loop"
    /\ IF fi < Len(files)
       THEN /\ fi' = fi + 1
            /\ mdfile' = [known |-> FALSE, text |-> <<>>]
            /\ written' = [to |-> "none", text |-> <<>>]
            /\ calls' = <<>> /\ failed' = {}
            /\ pc' = "read"
            /\ status' = status
       ELSE /\ status' = 0
            /\ pc' = "exit"
            /\ UNCHANGED <<fi, mdfile, written, calls, failed>>
    /\ UNCHANGED <<args, files, out, text, pass, idx, cache, dl, disk, prev>>

\* print(f"[OK] {md} -> {outp}")
main_ok ==
    /\ pc = "returned"
    /\ out' = Append(out, Line("OK"))
    /\ pc' = "loop"
    /\ UNCHANGED <<args, files, fi, status, doc, dl, disk>>

\* a handler that ends the run at the first document that fails
main_except_abort ==
    /\ pc = "raised"
    /\ out' = Append(out, Line("ERROR"))
    /\ status' = 1
    /\ pc' = "exit"
    /\ dl' = NoDl
    /\ UNCHANGED <<args, files, fi, doc, disk>>

\* except Exception as e: sys.stderr.write(f"[ERROR] {md}: {e}\n")
main_except ==
    /\ pc = "raised"
    /\ out' = Append(out, Line("ERROR"))
    /\ pc' = "loop"
    /\ dl' = NoDl
    /\ UNCHANGED <<args, files, fi, status, doc, disk>>

\* --retries and --timeout left at their defaults or both given, with and
\* without --overwrite.
CmdLines ==
    {[retries |-> b[1], timeout |-> b[2], overwrite |-> o] :
        b \in {<<DefaultRetries, DefaultTimeout>>, <<0, 5>>}, o \in BOOLEAN}

Init ==
    /\ pc = "main"
    /\ args \in CmdLines
    /\ files \in {[i \in 1..n |-> i] : n \in 0..MaxDocs}
    /\ fi = 0 /\ out = <<>> /\ status = -1
    /\ mdfile = [known |-> FALSE, text |-> <<>>]
    /\ written = [to |-> "none", text |-> <<>>]
    /\ text = <<>> /\ pass = 0 /\ idx = 0
    /\ cache = <<>> /\ calls = <<>> /\ failed = {}
    /\ prev = [done |-> FALSE, clean |-> FALSE, text |-> <<>>]
    /\ disk = [f \in FileNames |-> "absent"]
    /\ dl = NoDl

Next ==
    \/ main_find \/ main_next \/ main_ok \/ main_except
    \/ process_read(DriverDocs) \/ process_write
    \/ repl_not_remote \/ repl_cached \/ repl_download \/ repl_resume
    \/ pass_end
    \/ download_mkdir \/ download_attempt

Spec == Init /\ [][Next]_vars

(***************************************************************************)
(* process_md_file on its own, with overwrite, called once and then once   *)
(* more on the same path and output directory.                             *)
(***************************************************************************)
\* The second call: what the first one wrote and whether every download of
\* it returned a path are kept for comparison.
process_again ==
    /\ pc = "returned" /\ ~prev.done
    /\ prev' = [done |-> TRUE, clean |-> failed = {}, text |-> text]
    /\ calls' = <<>> /\ failed' = {}
    /\ pc' = "read"
    /\ UNCHANGED <<driver, mdfile, written, text, pass, idx, cache, dl, disk>>

InitDoc ==
    /\ pc = "read"
    /\ args = [retries |-> DefaultRetries, timeout |-> DefaultTimeout,
               overwrite |-> TRUE]
    /\ files = <<1>> /\ fi = 1 /\ out = <<>> /\ status = -1
    /\ mdfile = [known |-> FALSE, text |-> <<>>]
    /\ written = [to |-> "none", text |-> <<>>]
    /\ text = <<>> /\ pass = 0 /\ idx = 0
    /\ cache = <<>> /\ calls = <<>> /\ failed = {}
    /\ prev = [done |-> FALSE, clean |-> FALSE, text |-> <<>>]
    /\ disk = [f \in FileNames |-> "absent"]
    /\ dl = NoDl

NextDoc ==
    \/ process_read(Docs) \/ process_write \/ process_again
    \/ repl_not_remote \/ repl_cached \/ repl_download \/ repl_resume
    \/ pass_end
    \/ download_mkdir \/ download_attempt

SpecDoc == InitDoc /\ [][NextDoc]_vars

(***************************************************************************)
(* download on its own: any remote URL, any retry count, any directory.    *)
(***************************************************************************)
InitDisk == [FileNames -> {"absent", "empty", "old"}]

InitFetch ==
    /\ pc = "mkdir"
    /\ args = [retries |-> DefaultRetries, timeout |-> DefaultTimeout,
               overwrite |-> FALSE]
    /\ files = <<>> /\ fi = 0 /\ out = <<>> /\ status = -1
    /\ mdfile = [known |-> FALSE, text |-> <<>>]
    /\ written = [to |-> "none", text |-> <<>>]
    /\ text = <<>> /\ pass = 0 /\ idx = 0
    /\ cache = <<>> /\ calls = <<>> /\ failed = {}
    /\ prev = [done |-> FALSE, clean |-> FALSE, text |-> <<>>]
    /\ disk \in InitDisk
    /\ \E u \in RemoteURLs, r \in 0..MaxRetries,
          t \in Timeouts :
            dl = [NewDl(u, r, t, TRUE) EXCEPT !.disk0 = disk]

NextFetch == download_mkdir \/ download_attempt

SpecFetch == InitFetch /\ [][NextFetch]_vars
(***************************************************************************)
(* Properties.                                                             *)
(***************************************************************************)
\* A URL with scheme http or https, as the specification defines "remote".
Remote(u) == u.scheme \in {"http", "https"}

\* process_md_file has read the document and not yet left the call.
InCall == pc \in {"rewrite", "mkdir", "attempt", "dl_ret", "write", "returned"}

\* The spans the call has rewritten into a local reference.
Local(m) == m.url.host = OutDir \o "/"

\* C1: within one process_md_file call, download is invoked at most once for
\* each distinct remote URL, whatever the outcome of the call was.
C1_AtMostOneFetchPerUrl == \A u \in DOMAIN calls : calls[u] <= 1

\* C2: download makes at most max_retries + 1 attempts, every failed attempt
\* uses one of them, no attempt follows a successful one, a successful
\* attempt returns a path, and None is returned exactly when max_retries + 1
\* attempts have failed.
C2_RetryBudget ==
    LET n == Len(dl.tried)
        AllFailed == \A i \in 1..n : dl.tried[i].how # "ok"
    IN  dl.trace =>
          /\ n = dl.attempt
          /\ n <= dl.max_retries + 1
          /\ \A i \in 1..(n - 1) : dl.tried[i].how # "ok"
          /\ (dl.ret = "path") = (n > 0 /\ dl.tried[n].how = "ok")
          /\ (dl.ret = "none") = (n = dl.max_retries + 1 /\ AllFailed)
          /\ (dl.ret = "pending") = (n < dl.max_retries + 1 /\ AllFailed
                                       /\ pc \in {"mkdir", "attempt"})

\* C2 witness: 503 on the first attempt, 200 on the second, a path returned.
C2_Witness ==
    /\ pc = "dl_ret" /\ dl.ret = "path"
    /\ Len(dl.tried) = 2
    /\ dl.tried[1].status = 503 /\ dl.tried[2].status = 200

\* C3: every download of the run uses the retry count and the timeout given
\* on the command line, so a failing URL is attempted retries + 1 times.
C3_ConfiguredBudgetUsed ==
    pc \in {"mkdir", "attempt", "dl_ret"} =>
       /\ dl.max_retries = args.retries
       /\ dl.timeout = args.timeout
       /\ (dl.ret = "none" => dl.attempt = args.retries + 1)

\* C4: no failure inside download, the creation of the directory included,
\* makes process_md_file raise.
C4_ReferenceFailureContained == ~(pc = "raised" /\ dl.ret = "raised")

\* The [OK] and [ERROR] lines, in the order written.
IsDriverLine(l) == l.kind \in {"OK", "ERROR"}
DriverLines == SelectSeq(out, IsDriverLine)

\* C5: main handles the documents in list order, one wholly before the next,
\* writes exactly one [OK] or [ERROR] line for each, goes on after a failure,
\* and exits non-zero, before any document, exactly when none was found.
C5_OneLinePerDocument ==
    /\ \A i \in 1..Len(DriverLines) : DriverLines[i].file = files[i]
    /\ Len(DriverLines) =
         IF pc \in {"main", "loop", "exit"} THEN fi ELSE fi - 1
    /\ pc = "exit" => /\ fi = Len(files)
                      /\ (status = 1) = (files = <<>>)
                      /\ (status = 0) = (files # <<>>)
    /\ pc # "exit" => status = -1

\* C5 witness: two documents, the first failed, the second succeeded.
C5_Witness ==
    /\ pc = "exit" /\ Len(files) = 2 /\ Len(DriverLines) = 2
    /\ DriverLines[1].kind = "ERROR" /\ DriverLines[2].kind = "OK"

C7_NonRemoteUntouched ==
    /\ \A u \in DOMAIN calls \cup DOMAIN cache : Remote(u)
    /\ InCall =>
         \A i \in 1..Len(text) :
            ~Remote(mdfile.text[i].url) =>
               Render(text[i]) = Render(mdfile.text[i])

\* C7 witness: a call returns on a document with a data: URL and a remote URL
\* that was rewritten.
C7_Witness ==
    /\ pc = "returned"
    /\ \E i, j \in 1..Len(text) :
          /\ text[i].url.scheme = "data"
          /\ Local(text[j])

\* C8: an inline or reference-definition match that is rewritten differs
\* from the matched text in the URL only: alt or id, the title (an empty one
\* too) and the whitespace of the match are as they were.
C8_OnlyUrlReplaced ==
    pc \in {"rewrite", "mkdir", "attempt", "dl_ret", "write"} =>
       \A i \in 1..Len(text) :
          text[i].kind \in {"inline", "refdef"} =>
             text[i] = [mdfile.text[i] EXCEPT !.url = text[i].url]

\* C9: in the text process_md_file writes, all occurrences of one remote URL
\* carry the same substitution.
C9_ConsistentSubstitution ==
    pc = "write" =>
       \A i, j \in 1..Len(text) :
          (Remote(mdfile.text[i].url) /\ mdfile.text[i].url = mdfile.text[j].url)
             => text[i].url = text[j].url

\* C10: download never overwrites a file that was there and not empty, and
\* the file it returns holds the whole body of a response or what it held,
\* not empty, when the call began: never the prefix a failed attempt left.
C10_NoPartialFile ==
    dl.trace =>
       /\ \A f \in FileNames : dl.disk0[f] \in NonEmpty => disk[f] = dl.disk0[f]
       /\ dl.ret = "path" =>
             \/ disk[dl.path] = "full"
             \/ dl.disk0[dl.path] \in NonEmpty /\ disk[dl.path] = dl.disk0[dl.path]
====
